---------------------------- MODULE Spec2Model ----------------------------
(***************************************************************************)
(* scrapesearch.py: the fetch/extract pipeline.                            *)
(*                                                                         *)
(*   Spec         process_single_query: fetch_search_results (retry loop), *)
(*                random.sample, the ThreadPoolExecutor running one        *)
(*                scrape_page per sampled URL, as_completed collection;    *)
(*                up to MaxNumUrls tasks, retry loops of up to             *)
(*                MaxPoolRetries attempts.                                 *)
(*   SpecFetch    the same program with num_urls = 1 and max_workers = 1:  *)
(*                one search fetch and one page fetch, retry loops of up   *)
(*                to MaxRetries attempts.                                  *)
(*   SpecOrder    the same program with two workers and two fetchable      *)
(*                URLs, so that two pages can finish in either order.      *)
(*   SpecSkip     the same program on one result whose URL is any host     *)
(*                followed by up to MaxTail tokens of path, query and      *)
(*                fragment: the skip test of scrape_page.                  *)
(*   SpecExtract  fetch_search_results over search pages of up to          *)
(*                MaxContainers result containers, for every engine id.    *)
(*   SpecProject  process_scraped_data applied to bounded record lists.    *)
(*   SpecCli      cli_mode: the loop over up to MaxQueries queries of an   *)
(*                input file, or the single query, and the final save.     *)
(*   SpecInterrupt  SpecCli with a KeyboardInterrupt raised in the         *)
(*                collection loop of process_single_query.                 *)
(*   SpecPage     the content extraction of scrape_page over parsed        *)
(*                documents whose elements have up to MaxKids children.    *)
(*                                                                         *)
(* A URL is a sequence of tokens (pieces of the string); `domain in url`   *)
(* is the substring test on those sequences.  A text is a sequence of      *)
(* tokens too, each a whitespace character or a piece of a word.  A dict   *)
(* is a sequence of <<key, value>> pairs with distinct keys, kept in       *)
(* insertion order.                                                        *)
(***************************************************************************)
EXTENDS Integers, Sequences, FiniteSets, TLC

\* ------------------------------------------------------------ bounds
MaxRetries == 3
MaxPoolRetries == 1
MaxWorkers == 2
MaxNumUrls == 2
MaxResults == 2
MaxItems == 2
MaxFields == 2
MaxContainers == 2
MaxQueries == 2
MaxKids == 2
MaxTail == 3

\* ------------------------------------------------------ configuration
\* DOMAINS_TO_SKIP = ["twitter.com"]
DOMAINS_TO_SKIP == << <<"twitter", ".com">> >>

\* Candidate URLs the search page may link to: one whose host is on the skip
\* list and one whose host is not.
UrlTwitter == <<"https://", "twitter", ".com", "/", "a">>
UrlExample == <<"https://", "example", ".org", "/", "a">>
UrlPool == {UrlTwitter, UrlExample}

\* The host of a URL: the tokens between the scheme and the first "/", "?"
\* or "#".
HostDelimiters == {"/", "?", "#"}
HostEnd(url) ==
    IF \E i \in 2..Len(url) : url[i] \in HostDelimiters
    THEN (CHOOSE i \in 2..Len(url) :
             url[i] \in HostDelimiters /\ \A j \in 2..(i - 1) : url[j] \notin HostDelimiters) - 1
    ELSE Len(url)
Host(url) == SubSeq(url, 2, HostEnd(url))

\* A test that looks for the domain at the start of the URL string only.
ContainsAtStart(url, domain) ==
    Len(domain) <= Len(url) /\ SubSeq(url, 1, Len(domain)) = domain

\* Python's `domain in url` on strings: domain occurs as a contiguous piece.
Contains(url, domain) ==
    \E i \in 1..(Len(url) - Len(domain) + 1) :
        SubSeq(url, i, i + Len(domain) - 1) = domain

\* A skip test that compares the host of the URL with the entries.
IsSkippedByHost(url) ==
    \E d \in 1..Len(DOMAINS_TO_SKIP) : Host(url) = DOMAINS_TO_SKIP[d]

\* scrape_page's first loop: some skip-list entry occurs in the URL string.
IsSkipped(url) ==
    \E d \in 1..Len(DOMAINS_TO_SKIP) : Contains(url, DOMAINS_TO_SKIP[d])

\* A delay that grows by one second per attempt.
PowLinear(k) == k + 1

RECURSIVE Pow2(_)
Pow2(k) == IF k = 0 THEN 1 ELSE 2 * Pow2(k - 1)

\* time.sleep(2 ** attempt): the base delay is one second.
BaseDelay == 1

\* A retry loop that sleeps the same delay before every retry.
BackoffFixed(attempt) == BaseDelay

BackoffDelay(attempt) == BaseDelay * Pow2(attempt)

\* ------------------------------------------------- network outcomes
\* What one requests.get + raise_for_status can end in: an HTTP status, or
\* a requests exception.  "MetaNoContent" is a 200 page whose description
\* meta tag has no content attribute (meta_description["content"] raises).
StatusOK == "200"
Outcomes == {"200", "404", "500", "503", "Timeout", "ConnectionError"}
PageBodies == {"html", "MetaNoContent"}

\* A status check that raises for every response, a 200 included.
RaisesAlways(outcome) == TRUE

\* requests.get raises (Timeout, ConnectionError) or raise_for_status raises
\* HTTPError: every outcome but a 200.
Raises(outcome) == outcome # StatusOK

\* The classes of the retry protocol: a 200 is ok, timeouts and HTTP 500/503
\* are transient failures, every other failure is terminal.
ResponseClass(outcome) ==
    IF outcome = StatusOK THEN "ok"
    ELSE IF outcome \in {"500", "503", "Timeout"} THEN "transient"
    ELSE "terminal"

\* Events of one fetch, in order of occurrence:
\*   GET   c = search URL (the search fetch), n = attempt index
\*                                  the request is issued
\*   resp  c = class, n = attempt   what the request ended in
\*   doc   c = body,  n = attempt   the document a 200 response carried
\*   sleep n = seconds              time.sleep
Event(ev, c, n) == [ev |-> ev, c |-> c, n |-> n]

\* --------------------------------------------------------------- text
\* A text is a sequence of tokens: a whitespace character, or a piece of a
\* word (a non-empty string without whitespace).  Pieces that touch make one
\* word.
IsSpace(c) == c \in {" ", "\n", "\t"}

\* The length of the longest prefix of text without whitespace.
RECURSIVE WordEnd(_)
WordEnd(text) ==
    IF text = <<>> \/ IsSpace(Head(text)) THEN 0 ELSE 1 + WordEnd(Tail(text))

\* str.split(): the maximal runs without whitespace.
RECURSIVE Split(_)
Split(text) ==
    IF text = <<>> THEN <<>>
    ELSE IF IsSpace(Head(text)) THEN Split(Tail(text))
    ELSE LET k == WordEnd(text)
         IN <<SubSeq(text, 1, k)>> \o Split(SubSeq(text, k + 1, Len(text)))

\* sep.join(parts)
RECURSIVE Join(_, _)
Join(parts, sep) ==
    IF parts = <<>> THEN <<>>
    ELSE IF Len(parts) = 1 THEN parts[1]
    ELSE parts[1] \o sep \o Join(Tail(parts), sep)

\* str.strip(): leading and trailing whitespace removed.
RECURSIVE StripLeft(_)
StripLeft(text) ==
    IF text # <<>> /\ IsSpace(Head(text)) THEN StripLeft(Tail(text)) ELSE text

RECURSIVE StripRight(_)
StripRight(text) ==
    IF text # <<>> /\ IsSpace(text[Len(text)])
    THEN StripRight(SubSeq(text, 1, Len(text) - 1))
    ELSE text

Strip(text) == StripRight(StripLeft(text))

\* clean_text(text) for a str: ' '.join(text.split()).strip()
clean_text(text) == Strip(Join(Split(text), <<" ">>))

\* ----------------------------------------------------- search engines
SEARCH_ENGINES ==
    [google |->
        [url |-> "https://www.google.com/search?q=",
         selectors |-> [result_link_container |-> "div.tF2Cxc",
                        link |-> "a",
                        title |-> "h3",
                        snippet_container |-> "div.IsZz3e"]],
     bing |->
        [url |-> "https://www.bing.com/search?q=",
         selectors |-> [result_link_container |-> "li.b_algo",
                        link |-> "h2 a",
                        title |-> "h2",
                        snippet_container |-> "div.b_caption p"]],
     duckduckgo |->
        [url |-> "https://duckduckgo.com/html/?q=",
         selectors |-> [result_link_container |-> "div.results_links_deep",
                        link |-> "a.result__a",
                        title |-> "h2",
                        snippet_container |-> "a.result__snippet"]]]

\* The engine ids a caller may pass: the three known ones and one that
\* SEARCH_ENGINES does not hold (config.json may name any).
EngineIds == {"google", "bing", "duckduckgo", "yahoo"}

\* An engine lookup that sends an unknown id to bing.
ResolveToBing(engine) ==
    IF engine \in DOMAIN SEARCH_ENGINES THEN engine ELSE "bing"

\* if search_engine not in SEARCH_ENGINES: search_engine = "google"
ResolveEngine(engine) ==
    IF engine \in DOMAIN SEARCH_ENGINES THEN engine ELSE "google"

\* engine_config = SEARCH_ENGINES[search_engine], after the fallback
EngineConfig(engine) == SEARCH_ENGINES[ResolveEngine(engine)]

\* ------------------------------------------------------- search pages
\* An element of a result container as the extractor sees it: whether
\* select_one found it, its .text, and its href attribute.
Element(text, has_href, href) ==
    [exists |-> TRUE, text |-> text, has_href |-> has_href, href |-> href]

\* select_one found nothing.
NoElem == [exists |-> FALSE, text |-> <<>>, has_href |-> FALSE, href |-> <<>>]

\* A node of the search page that matches the container selector `sel` of one
\* engine, with the first matches, inside it, of that engine's link, title
\* and snippet selectors.
Container(sel, link, title, snippet) ==
    [sel |-> sel, link |-> link, title |-> title, snippet |-> snippet]

\* soup.select(selector): the matching containers, in document order.
Select(soup, selector) == SelectSeq(soup, LAMBDA c : c.sel = selector)

NoTitleFound == <<"No", " ", "title", " ", "found">>
NoSnippetFound == <<"No", " ", "snippet", " ", "found">>

\* link_href = link.get('href') if link else None; None is falsy and so is "".
LinkHrefTruthy(link) == link.exists /\ link.has_href /\ link.href # <<>>

\* title_text = title_elem.text if title_elem else "No title found"
TitleText(title_elem) == IF title_elem.exists THEN title_elem.text ELSE NoTitleFound

\* snippet_text = snippet_elem.text if snippet_elem else "No snippet found"
SnippetText(snippet_elem) ==
    IF snippet_elem.exists THEN snippet_elem.text ELSE NoSnippetFound

SearchResult(url, title, snippet) == [url |-> url, title |-> title, snippet |-> snippet]

\* The loop over result_links: a container is appended when
\* `link_href and title_text` is truthy.
RECURSIVE ExtractContainers(_)
ExtractContainers(result_links) ==
    IF result_links = <<>> THEN <<>>
    ELSE LET n == Len(result_links)
             before == ExtractContainers(SubSeq(result_links, 1, n - 1))
             link_container == result_links[n]
             title_text == TitleText(link_container.title)
             snippet_text == SnippetText(link_container.snippet)
         IN IF LinkHrefTruthy(link_container.link) /\ title_text # <<>>
            THEN Append(before, SearchResult(link_container.link.href,
                                             clean_text(title_text),
                                             clean_text(snippet_text)))
            ELSE before

\* What fetch_search_results makes of a 200 response: the containers selected
\* with the profile's selector, then the loop (an empty selection returns []).
ExtractResults(soup, selectors) ==
    ExtractContainers(Select(soup, selectors.result_link_container))

\* ------------------------------------------------------------- state
VARIABLES
    retries,        \* config["retries"]
    max_workers,    \* config["max_workers"]
    num_urls,       \* config["num_urls"]
    search_only,    \* args.search_only
    search_engine,  \* args.engine or config["search_engine"]
    search_page,    \* the document the engine serves for the query: its containers
    pc,             \* where process_single_query (the coordinator thread) is
    sAttempt,       \* fetch_search_results: the loop variable `attempt`
    sLog,           \* fetch_search_results: the events of the search fetch
    sOutcome,       \* how fetch_search_results ended: "ok", "terminal", "exhausted"
    results,        \* the list fetch_search_results returned
    urls_to_scrape, \* random.sample(results, ...): the URLs, one task each
    task,           \* per submitted future: st, attempt, log, result of scrape_page
    workQueue,      \* executor._work_queue: submitted tasks no worker has taken
    numThreads,     \* len(executor._threads)
    idleSem,        \* executor._idle_semaphore
    submitted,      \* how many executor.submit calls have been made
    yieldQueue,     \* as_completed: finished futures not yet yielded, in yield order
    watching,       \* as_completed has installed its waiter
    yielded,        \* how many futures as_completed has yielded to the loop
    scraped_data,   \* the list process_single_query builds and returns
    completed,      \* the futures in the order in which they finished
    interrupted,    \* KeyboardInterrupt has been raised in the coordinator thread
    output_fields,  \* config["output_fields"]
    scraped_results,\* the records handed to process_scraped_data
    processed_data, \* what process_scraped_data returned
    input_file,     \* args.input_file is given (else args.query, if any)
    queries,        \* cli_mode: the queries of the input file (or the one query)
    qi,             \* cli_mode: the position of the query being processed
    per_query_output, \* args.per_query_output
    all_scraped_data, \* cli_mode: the combined records
    files,          \* the output files written so far: query and records
    summary,        \* what cli_mode printed at its end
    history,        \* per processed query: what its calls returned
    document,       \* the content page handed to the page extraction
    full_content    \* the full_content scrape_page extracted from it

vars == <<retries, max_workers, num_urls, search_only, search_engine, search_page, pc,
          sAttempt, sLog, sOutcome, results, urls_to_scrape, task, workQueue, numThreads,
          idleSem, submitted, yieldQueue, watching, yielded, scraped_data, completed,
          interrupted, output_fields, scraped_results, processed_data, input_file,
          queries, qi, per_query_output, all_scraped_data, files, summary, history, document, full_content>>

configVars == <<retries, max_workers, num_urls, search_only, search_engine>>
searchVars == <<sAttempt, sLog, sOutcome, results, search_page>>
poolVars == <<urls_to_scrape, task, workQueue, numThreads, idleSem, submitted,
              yieldQueue, watching, yielded, scraped_data, completed>>
projVars == <<output_fields, scraped_results, processed_data>>
cliVars == <<input_file, queries, qi, per_query_output, all_scraped_data, files, summary, history>>
pageVars == <<document, full_content>>

\* Sequences over S of length 0..n.
SeqUpTo(S, n) == UNION {[1..k -> S] : k \in 0..n}

\* A google result container with everything in place, linking to url.
WellFormed(url) ==
    Container(SEARCH_ENGINES.google.selectors.result_link_container,
              Element(<<"Foo">>, TRUE, url),
              Element(<<"Foo">>, FALSE, <<>>),
              Element(<<"bar">>, FALSE, <<>>))

\* What the engine can serve for a query: any list of up to MaxResults
\* well-formed containers linking to candidate URLs.
ResultPages == SeqUpTo({WellFormed(url) : url \in UrlPool}, MaxResults)

\* The shapes a result container of the google profile can have: the link
\* missing, without href, with an empty href, with an href; the title missing,
\* empty, blank, or words among whitespace; the snippet missing or present.
LinkShapes ==
    {NoElem, Element(<<"Foo">>, FALSE, <<>>), Element(<<"Foo">>, TRUE, <<>>),
     Element(<<"Foo">>, TRUE, <<"/", "x">>)}
TitleShapes ==
    {NoElem, Element(<<>>, FALSE, <<>>), Element(<<" ", "\n">>, FALSE, <<>>),
     Element(<<" ", "Foo", "\n", " ", "bar">>, FALSE, <<>>)}
SnippetShapes == {NoElem, Element(<<"s", " ", " ", "t", " ">>, FALSE, <<>>)}

\* A container of another profile, with everything in place.
WellFormedOf(engine) ==
    Container(SEARCH_ENGINES[engine].selectors.result_link_container,
              Element(<<"Foo">>, TRUE, <<"/", engine>>),
              Element(<<"Foo">>, FALSE, <<>>),
              Element(<<"bar">>, FALSE, <<>>))

Containers ==
    {Container(SEARCH_ENGINES.google.selectors.result_link_container, link, title, snippet) :
        link \in LinkShapes, title \in TitleShapes, snippet \in SnippetShapes}
    \cup {WellFormedOf("bing"), WellFormedOf("duckduckgo")}

\* The search pages the extraction is examined on.
SearchPages == SeqUpTo(Containers, MaxContainers)

\* What cli_mode prints at its end: "Summary: Successfully scraped a total of
\* n pages.", "No data was successfully scraped.", or neither.
Summary(kind, n) == [kind |-> kind, n |-> n]
NoSummary == Summary("none", 0)

\* No cli_mode loop is running.
NoCli ==
    /\ input_file = FALSE
    /\ queries = <<>>
    /\ qi = 0
    /\ per_query_output = FALSE
    /\ all_scraped_data = <<>>
    /\ files = <<>>
    /\ summary = NoSummary
    /\ history = <<>>

\* No content page is being extracted.
NoDocument ==
    /\ document = <<>>
    /\ full_content = <<>>

InitWith(maxRetries, maxWorkers, maxNumUrls) ==
    /\ retries \in 1..maxRetries
    /\ max_workers \in 1..maxWorkers
    /\ num_urls \in 1..maxNumUrls
    /\ search_only \in BOOLEAN
    /\ sAttempt = 0
    /\ sLog = <<>>
    /\ sOutcome = "pending"
    /\ results = <<>>
    /\ urls_to_scrape = <<>>
    /\ task = <<>>
    /\ workQueue = <<>>
    /\ numThreads = 0
    /\ idleSem = 0
    /\ submitted = 0
    /\ yieldQueue = <<>>
    /\ watching = FALSE
    /\ yielded = 0
    /\ scraped_data = <<>>
    /\ completed = <<>>
    /\ interrupted = FALSE
    /\ scraped_results = <<>>
    /\ processed_data = <<>>

\* DEFAULT_CONFIG["search_engine"]
DefaultEngine == "google"

Init ==
    /\ InitWith(MaxPoolRetries, MaxWorkers, MaxNumUrls)
    /\ search_engine = DefaultEngine
    /\ search_page \in ResultPages
    /\ output_fields = <<>>
    /\ pc = "search"
    /\ NoCli
    /\ NoDocument

InitFetch ==
    /\ InitWith(MaxRetries, 1, 1)
    /\ search_engine = DefaultEngine
    /\ search_page \in ResultPages
    /\ output_fields = <<>>
    /\ pc = "search"
    /\ NoCli
    /\ NoDocument

\* A second candidate URL that is not on the skip list.
UrlOther == <<"https://", "example", ".org", "/", "b">>

\* Two URLs, both fetchable, scraped on two workers: the pages of the two
\* tasks can be told apart.
InitOrder ==
    /\ InitWith(1, 2, 2)
    /\ max_workers = 2
    /\ num_urls = 2
    /\ search_only = FALSE
    /\ search_engine = DefaultEngine
    /\ search_page = <<WellFormed(UrlExample), WellFormed(UrlOther)>>
    /\ output_fields = <<>>
    /\ pc = "search"
    /\ NoCli
    /\ NoDocument

\* URLs for the skip test: a scheme, a host and up to MaxTail tokens of path,
\* query and fragment.  The tokens are cut so that "twitter.com" occurs in
\* the URL string exactly when <<"twitter", ".com">> occurs in the token
\* sequence: no other token holds a piece of it ("Twitter" differs in case,
\* and `in` is case-sensitive).
SkipHosts ==
    { <<"twitter", ".com">>,
      <<"example", ".org">>,
      <<"not", "twitter", ".com">>,
      <<"Twitter", ".com">>,
      <<"twitter", ".org">> }
TailTokens == {"/", "?", "#", "twitter", ".com", "a"}
SkipUrls ==
    {<<"https://">> \o host \o tail :
        host \in SkipHosts, tail \in SeqUpTo(TailTokens, MaxTail)}

\* One result linking to any of these URLs, scraped on one worker.
InitSkip ==
    /\ InitWith(1, 1, 1)
    /\ search_only = FALSE
    /\ search_engine = DefaultEngine
    /\ \E url \in SkipUrls : search_page = <<WellFormed(url)>>
    /\ output_fields = <<>>
    /\ pc = "search"
    /\ NoCli
    /\ NoDocument

\* A search-only call of process_single_query, with any engine id, on any of
\* the search pages.
InitExtract ==
    /\ InitWith(1, 1, 1)
    /\ search_only = TRUE
    /\ search_engine \in EngineIds
    /\ search_page \in SearchPages
    /\ output_fields = <<>>
    /\ pc = "search"
    /\ NoCli
    /\ NoDocument

\* ------------------------------------------- fetch_search_results
\* Which failures of the search fetch are retried after a sleep: HTTPError
\* with status 500 or 503, and Timeout.  Any other HTTPError and any other
\* RequestException return [] at once.
SearchRetries(outcome) == outcome \in {"500", "503", "Timeout"}

\* One iteration of `for attempt in range(retries)`: the GET of the
\* profile's search URL and the handling of what it ends in; on a 200 the
\* extraction from the page with the profile's selectors.
SearchAttempt ==
    /\ pc = "search"
    /\ sAttempt < retries
    /\ \E outcome \in Outcomes :
         LET engine_config == EngineConfig(search_engine)
             got == sLog \o <<Event("GET", engine_config.url, sAttempt),
                              Event("resp", ResponseClass(outcome), sAttempt)>>
         IN
         IF ~Raises(outcome)
         THEN /\ results' = ExtractResults(search_page, engine_config.selectors)
              /\ sLog' = got
              /\ sOutcome' = "ok"
              /\ pc' = "searched"
         ELSE IF SearchRetries(outcome)
         THEN /\ sLog' = Append(got, Event("sleep", "", BackoffDelay(sAttempt)))
              /\ pc' = "searchSleep"
              /\ UNCHANGED <<results, sOutcome>>
         ELSE /\ sLog' = got
              /\ results' = <<>>
              /\ sOutcome' = "terminal"
              /\ pc' = "searched"
    /\ UNCHANGED <<sAttempt, search_page, configVars, projVars, poolVars, interrupted, cliVars,
                   pageVars>>

\* time.sleep returns; the loop takes its next value, or is exhausted and
\* the function returns [].
SearchWake ==
    /\ pc = "searchSleep"
    /\ sAttempt' = sAttempt + 1
    /\ IF sAttempt + 1 < retries
       THEN pc' = "search" /\ UNCHANGED <<results, sOutcome>>
       ELSE pc' = "searched" /\ results' = <<>> /\ sOutcome' = "exhausted"
    /\ UNCHANGED <<sLog, search_page, configVars, projVars, poolVars, interrupted, cliVars,
                   pageVars>>

\* ------------------------------------------- process_single_query
Min(a, b) == IF a <= b THEN a ELSE b

\* A draw of k positions of the population that may repeat a position.
SamplesWithReplacement(population, k) ==
    {[i \in 1..k |-> population[pos[i]]] : pos \in [1..k -> 1..Len(population)]}

\* random.sample(population, k): k distinct positions of the population, in
\* any order.
Samples(population, k) ==
    {[i \in 1..k |-> population[pos[i]]] :
        pos \in {f \in [1..k -> 1..Len(population)] :
                    \A i, j \in 1..k : i # j => f[i] # f[j]}}

\* A value of scrape_page: the dict of a page, or None.
None == [url |-> <<>>, from |-> -1]

\* A loop body that appends whatever the future returned.
TruthyAlways(value) == TRUE

\* `if scraped_result:`: None is falsy, a four-key dict is truthy.
Truthy(value) == value # None

NewTask == [st |-> "new", attempt |-> 0, log |-> <<>>, result |-> None]

\* After fetch_search_results returns: the search_only branch, `if results:`,
\* the sample and the creation of the executor.
StartScrape ==
    /\ pc = "searched"
    /\ IF search_only \/ results = <<>>
       THEN /\ pc' = "returned"
            /\ UNCHANGED poolVars
       ELSE /\ \E sample \in Samples(results, Min(num_urls, Len(results))) :
                 /\ urls_to_scrape' = [i \in 1..Len(sample) |-> sample[i].url]
                 /\ task' = [i \in 1..Len(sample) |-> NewTask]
            /\ pc' = "submit"
            /\ UNCHANGED <<workQueue, numThreads, idleSem, submitted, yieldQueue,
                           watching, yielded, scraped_data, completed>>
    /\ UNCHANGED <<configVars, projVars, searchVars, interrupted, cliVars, pageVars>>

\* ------------------------------------------- ThreadPoolExecutor
\* The futures whose scrape_page call a worker thread is executing.
Executing == {t \in 1..Len(task) : task[t].st \in {"check", "get", "sleep"}}

Finished == {t \in 1..Len(task) : task[t].st = "done"}

\* A pool that starts a thread for every submitted task.
MaySpawnAlways == TRUE

\* ThreadPoolExecutor(max_workers=...): submit starts a new worker thread only
\* below the limit.
MaySpawn == numThreads < max_workers

\* executor.submit(scrape_page, url['url'], ...) for the next sampled URL, in
\* the order of the dict comprehension; after the last one the coordinator
\* goes on to as_completed.
Submit ==
    /\ pc = "submit"
    /\ submitted < Len(urls_to_scrape)
    /\ LET t == submitted + 1 IN
         /\ task' = [task EXCEPT ![t].st = "queued"]
         /\ workQueue' = Append(workQueue, t)
         /\ submitted' = t
         /\ IF idleSem > 0
            THEN idleSem' = idleSem - 1 /\ UNCHANGED numThreads
            ELSE /\ numThreads' = IF MaySpawn THEN numThreads + 1 ELSE numThreads
                 /\ UNCHANGED idleSem
         /\ pc' = IF t = Len(urls_to_scrape) THEN "as_completed" ELSE "submit"
    /\ UNCHANGED <<urls_to_scrape, yieldQueue, watching, yielded, scraped_data, completed,
                   configVars, projVars, searchVars, interrupted, cliVars, pageVars>>

\* A worker thread that is not running a task takes the oldest queued one and
\* calls scrape_page.
TaskStart(t) ==
    /\ workQueue # <<>>
    /\ t = Head(workQueue)
    /\ Cardinality(Executing) < numThreads
    /\ workQueue' = Tail(workQueue)
    /\ task' = [task EXCEPT ![t].st = "check"]
    /\ UNCHANGED <<pc, urls_to_scrape, numThreads, idleSem, submitted, yieldQueue,
                   watching, yielded, scraped_data, completed, configVars, projVars, searchVars, interrupted, cliVars, pageVars>>

\* scrape_page returns `value`: the future is finished, the worker releases
\* the idle semaphore, and a waiting as_completed is told.
Return(t, value, log) ==
    /\ task' = [task EXCEPT ![t].st = "done", ![t].result = value, ![t].log = log]
    /\ idleSem' = idleSem + 1
    /\ yieldQueue' = IF watching THEN Append(yieldQueue, t) ELSE yieldQueue
    /\ completed' = Append(completed, t)

\* ------------------------------------------------------ scrape_page
\* Which failures of a page fetch are retried after a sleep:
\* `except requests.exceptions.RequestException` catches every HTTPError
\* (whatever the status), Timeout and ConnectionError alike.
ScrapeRetries(outcome) == outcome \in {"404", "500", "503", "Timeout", "ConnectionError"}

\* The dict scrape_page returns for the response of attempt `attempt`; `from`
\* stands for title, description and full_content, all extracted from that
\* response.
ScrapedPage(url, attempt) == [url |-> url, from |-> attempt]

\* The DOMAINS_TO_SKIP loop at the head of scrape_page.
TaskCheck(t) ==
    /\ task[t].st = "check"
    /\ IF IsSkipped(urls_to_scrape[t])
       THEN Return(t, None, task[t].log)
       ELSE /\ task' = [task EXCEPT ![t].st = "get"]
            /\ UNCHANGED <<idleSem, yieldQueue, completed>>
    /\ UNCHANGED <<pc, urls_to_scrape, workQueue, numThreads, submitted, watching,
                   yielded, scraped_data, configVars, projVars, searchVars, interrupted, cliVars, pageVars>>

\* One iteration of `for attempt in range(retries)`: the GET, and on a 200
\* the extraction; what they end in.
TaskAttempt(t) ==
    /\ task[t].st = "get"
    /\ task[t].attempt < retries
    /\ \E outcome \in Outcomes :
         LET a == task[t].attempt
             got == task[t].log \o <<Event("GET", "", a),
                                     Event("resp", ResponseClass(outcome), a)>>
         IN
         IF ~Raises(outcome)
         THEN \E body \in PageBodies :
                Return(t,
                       IF body = "html" THEN ScrapedPage(urls_to_scrape[t], a) ELSE None,
                       Append(got, Event("doc", body, a)))
         ELSE IF ScrapeRetries(outcome)
         THEN /\ task' = [task EXCEPT ![t].st = "sleep",
                                      ![t].log = Append(got, Event("sleep", "", BackoffDelay(a)))]
              /\ UNCHANGED <<idleSem, yieldQueue, completed>>
         ELSE Return(t, None, got)
    /\ UNCHANGED <<pc, urls_to_scrape, workQueue, numThreads, submitted, watching,
                   yielded, scraped_data, configVars, projVars, searchVars, interrupted, cliVars, pageVars>>

\* time.sleep returns; the loop takes its next value, or is exhausted and
\* scrape_page returns None.
TaskWake(t) ==
    /\ task[t].st = "sleep"
    /\ IF task[t].attempt + 1 < retries
       THEN /\ task' = [task EXCEPT ![t].st = "get", ![t].attempt = @ + 1]
            /\ UNCHANGED <<idleSem, yieldQueue, completed>>
       ELSE Return(t, None, task[t].log)
    /\ UNCHANGED <<pc, urls_to_scrape, workQueue, numThreads, submitted, watching,
                   yielded, scraped_data, configVars, projVars, searchVars, interrupted, cliVars, pageVars>>

\* ------------------------------------------------ as_completed loop
\* The orders in which a set of futures can be listed.
Orderings(S) ==
    {q \in [1..Cardinality(S) -> S] : \A i, j \in 1..Cardinality(S) : i # j => q[i] # q[j]}

\* as_completed(future_to_url): the futures already finished are yielded
\* first, in the iteration order of a set; the waiter is installed for the
\* others.
AsCompleted ==
    /\ pc = "as_completed"
    /\ \E first \in Orderings(Finished) : yieldQueue' = first
    /\ watching' = TRUE
    /\ pc' = "collect"
    /\ UNCHANGED <<urls_to_scrape, task, workQueue, numThreads, idleSem, submitted,
                   yielded, scraped_data, completed, configVars, projVars, searchVars, interrupted, cliVars, pageVars>>

\* The loop body for the next yielded future: future.result(), appended when
\* truthy.
Collect ==
    /\ pc = "collect"
    /\ yieldQueue # <<>>
    /\ LET scraped_result == task[Head(yieldQueue)].result IN
         scraped_data' = IF Truthy(scraped_result)
                         THEN Append(scraped_data, scraped_result)
                         ELSE scraped_data
    /\ yieldQueue' = Tail(yieldQueue)
    /\ yielded' = yielded + 1
    /\ UNCHANGED <<pc, urls_to_scrape, task, workQueue, numThreads, idleSem, submitted,
                   watching, completed, configVars, projVars, searchVars, interrupted, cliVars, pageVars>>

\* A loop that ends as soon as no finished future is at hand, and a pool that
\* is left without waiting.
MayReturnEarly == yieldQueue = <<>>

\* tqdm(..., total=len(urls_to_scrape)): the total of the progress bar.
ProgressTotal == Len(urls_to_scrape)

\* The `for` loop ends when as_completed has yielded every future; leaving
\* the `with` block is executor.shutdown(wait=True), which returns when the
\* work queue is drained and the workers have been joined.
MayReturn ==
    /\ yielded = Len(urls_to_scrape)
    /\ workQueue = <<>>
    /\ Executing = {}

\* return scraped_data
ExitPool ==
    /\ pc = "collect"
    /\ MayReturn
    /\ pc' = "returned"
    /\ UNCHANGED <<configVars, projVars, searchVars, interrupted, cliVars, pageVars, poolVars>>

Next ==
    \/ SearchAttempt
    \/ SearchWake
    \/ StartScrape
    \/ Submit
    \/ \E t \in 1..Len(task) : TaskStart(t)
    \/ \E t \in 1..Len(task) : TaskCheck(t)
    \/ \E t \in 1..Len(task) : TaskAttempt(t)
    \/ \E t \in 1..Len(task) : TaskWake(t)
    \/ AsCompleted
    \/ Collect
    \/ ExitPool

Spec == Init /\ [][Next]_vars

SpecFetch == InitFetch /\ [][Next]_vars

SpecOrder == InitOrder /\ [][Next]_vars

SpecSkip == InitSkip /\ [][Next]_vars

\* The steps of a search-only call.
NextSearch ==
    \/ SearchAttempt
    \/ SearchWake
    \/ StartScrape

SpecExtract == InitExtract /\ [][NextSearch]_vars

\* ------------------------------------------- process_scraped_data
\* Field names and values of the records.  "snippet" is a SearchResult field
\* that a ScrapedPage does not have.
FieldNames == {"url", "title", "snippet"}
ValuesOf(key) == IF key = "url" THEN {"", "u"} ELSE {"t"}

\* item.get(key) of a key the dict does not hold.
NoValue == "<None>"
FieldNotFound == "Field not found"

\* A dict: <<key, value>> pairs with distinct keys, in insertion order.
DictHas(d, key) == \E i \in 1..Len(d) : d[i][1] = key

DictGet(d, key) ==
    IF DictHas(d, key) THEN d[CHOOSE i \in 1..Len(d) : d[i][1] = key][2] ELSE NoValue

\* d[key] = value: a new key goes to the end, an old key keeps its place.
DictSet(d, key, value) ==
    IF DictHas(d, key)
    THEN [i \in 1..Len(d) |-> IF d[i][1] = key THEN <<key, value>> ELSE d[i]]
    ELSE Append(d, <<key, value>>)

\* {field: item.get(field) for field in fields if field in item}
RECURSIVE FilteredItem(_, _)
FilteredItem(item, fields) ==
    IF fields = <<>> THEN <<>>
    ELSE LET n == Len(fields)
             before == FilteredItem(item, SubSeq(fields, 1, n - 1))
         IN IF DictHas(item, fields[n])
            THEN DictSet(before, fields[n], DictGet(item, fields[n]))
            ELSE before

\* A projection that leaves the absent fields out.
FillNothing(filtered_item, fields) == filtered_item

\* for field in fields: if field not in filtered_item:
\*     filtered_item[field] = "Field not found"
RECURSIVE FillMissing(_, _)
FillMissing(filtered_item, fields) ==
    IF fields = <<>> THEN filtered_item
    ELSE LET n == Len(fields)
             before == FillMissing(filtered_item, SubSeq(fields, 1, n - 1))
         IN IF DictHas(before, fields[n])
            THEN before
            ELSE DictSet(before, fields[n], FieldNotFound)

\* A validation that keeps every record that has a url key.
RetainsIfKey(item) == DictHas(item, "url")

\* `if item.get('url')`: a missing url (None) and an empty one are falsy.
Retains(item) == DictGet(item, "url") \notin {NoValue, ""}

RECURSIVE process_scraped_data(_, _)
process_scraped_data(scraped, fields) ==
    IF scraped = <<>> THEN <<>>
    ELSE LET n == Len(scraped)
             before == process_scraped_data(SubSeq(scraped, 1, n - 1), fields)
         IN IF Retains(scraped[n])
            THEN Append(before, FillMissing(FilteredItem(scraped[n], fields), fields))
            ELSE before

\* The records the function is applied to: any keys in any order.
KeyOrders ==
    {ks \in SeqUpTo(FieldNames, Cardinality(FieldNames)) :
        \A i, j \in 1..Len(ks) : i # j => ks[i] # ks[j]}

Items ==
    UNION {{[i \in 1..Len(ks) |-> <<ks[i], v[i]>>] :
              v \in {w \in [1..Len(ks) -> {"", "u", "t"}] :
                        \A i \in 1..Len(ks) : w[i] \in ValuesOf(ks[i])}} :
           ks \in KeyOrders}

InitProject ==
    /\ retries = 1
    /\ max_workers = 1
    /\ num_urls = 1
    /\ search_only = FALSE
    /\ search_engine = DefaultEngine
    /\ search_page = <<>>
    /\ completed = <<>>
    /\ interrupted = FALSE
    /\ NoCli
    /\ NoDocument
    /\ pc = "project"
    /\ sAttempt = 0
    /\ sLog = <<>>
    /\ sOutcome = "pending"
    /\ results = <<>>
    /\ urls_to_scrape = <<>>
    /\ task = <<>>
    /\ workQueue = <<>>
    /\ numThreads = 0
    /\ idleSem = 0
    /\ submitted = 0
    /\ yieldQueue = <<>>
    /\ watching = FALSE
    /\ yielded = 0
    /\ scraped_data = <<>>
    /\ output_fields \in SeqUpTo(FieldNames, MaxFields)
    /\ scraped_results \in SeqUpTo(Items, MaxItems)
    /\ processed_data = <<>>

\* processed_data = process_scraped_data(scraped_results, config["output_fields"])
Project ==
    /\ pc = "project"
    /\ processed_data' = process_scraped_data(scraped_results, output_fields)
    /\ pc' = "projected"
    /\ UNCHANGED <<output_fields, scraped_results, configVars, searchVars, poolVars,
                   interrupted, cliVars, pageVars>>

NextProject == Project

SpecProject == InitProject /\ [][NextProject]_vars

\* ---------------------------------------------------------- cli_mode
\* The string of a candidate URL.
UrlString(url) ==
    IF url = UrlTwitter THEN "https://twitter.com/a" ELSE "https://example.org/a"

\* The dict scrape_page returned, as process_scraped_data reads it: the four
\* keys in the order of the dict display.
PageDict(scraped) ==
    << <<"url", UrlString(scraped.url)>>, <<"title", "t">>,
       <<"description", "t">>, <<"full_content", "t">> >>

\* DEFAULT_CONFIG["output_fields"]
DefaultFields == <<"url", "title", "description", "full_content">>

\* The queries of an input file of n non-blank lines.
QueryList(n) == [i \in 1..n |-> <<"query", i>>]

\* An output file: the name it is saved under and the records written.
File(name, data) == [name |-> name, data |-> data]

\* A combined list that holds the records of the latest query only.
Overwrite(list, items) == items

\* all_scraped_data.extend(processed_data)
Extend(list, items) == list \o items

\* What the calls made for one query returned: fetch_search_results (and how
\* it ended, and how many containers the page had for the profile),
\* process_single_query, process_scraped_data.
QueryRecord ==
    [query |-> queries[qi],
     search |-> sOutcome,
     containers |-> Len(Select(search_page,
                               EngineConfig(search_engine).selectors.result_link_container)),
     returned |-> results,
     pages |-> scraped_data]

\* cli_mode is entered with an input file of up to MaxQueries queries, with
\* one query, or with neither; every fetch loop makes one attempt, on one
\* worker, and up to maxNumUrls URLs are scraped per query.
InitCliWith(maxNumUrls) ==
    /\ InitWith(1, 1, maxNumUrls)
    /\ search_only = FALSE
    /\ search_engine = DefaultEngine
    /\ search_page \in ResultPages
    /\ output_fields = DefaultFields
    /\ pc = "cli"
    /\ input_file \in BOOLEAN
    /\ queries \in {QueryList(n) : n \in 0..(IF input_file THEN MaxQueries ELSE 1)}
    /\ qi = 0
    /\ per_query_output \in BOOLEAN
    /\ all_scraped_data = <<>>
    /\ files = <<>>
    /\ summary = NoSummary
    /\ history = <<>>
    /\ NoDocument

InitCli == InitCliWith(1)

\* The head of cli_mode: an empty input file, or neither a file nor a query,
\* returns at once; otherwise process_single_query is called for the first
\* query.
CliStart ==
    /\ pc = "cli"
    /\ IF queries = <<>>
       THEN pc' = "cli_done" /\ UNCHANGED qi
       ELSE pc' = "search" /\ qi' = 1
    /\ UNCHANGED <<input_file, queries, per_query_output, all_scraped_data, files, summary,
                   history, configVars, searchVars, poolVars, projVars, interrupted,
                   pageVars>>

\* process_single_query is entered for the next query: fresh locals, and the
\* page the engine serves for that query.
CallQuery ==
    /\ pc' = "search"
    /\ sAttempt' = 0
    /\ sLog' = <<>>
    /\ sOutcome' = "pending"
    /\ results' = <<>>
    /\ \E served \in ResultPages : search_page' = served
    /\ urls_to_scrape' = <<>>
    /\ task' = <<>>
    /\ workQueue' = <<>>
    /\ numThreads' = 0
    /\ idleSem' = 0
    /\ submitted' = 0
    /\ yieldQueue' = <<>>
    /\ watching' = FALSE
    /\ yielded' = 0
    /\ scraped_data' = <<>>
    /\ completed' = <<>>

\* process_single_query has returned to cli_mode: process_scraped_data, then
\* the per-query file or the combined list, then the next query of the loop,
\* or the end of the loop.
QueryDone ==
    /\ pc = "returned"
    /\ qi >= 1
    /\ LET processed ==
             process_scraped_data([i \in 1..Len(scraped_data) |-> PageDict(scraped_data[i])],
                                  output_fields)
       IN /\ scraped_results' = scraped_data
          /\ processed_data' = processed
          /\ IF input_file /\ processed = <<>>
             THEN UNCHANGED <<all_scraped_data, files>>
             ELSE IF input_file /\ per_query_output
             THEN /\ files' = Append(files, File(queries[qi], processed))
                  /\ UNCHANGED all_scraped_data
             ELSE /\ all_scraped_data' = Extend(all_scraped_data, processed)
                  /\ UNCHANGED files
    /\ history' = Append(history, QueryRecord)
    /\ IF input_file /\ qi < Len(queries)
       THEN qi' = qi + 1 /\ CallQuery
       ELSE pc' = "cli_finish" /\ UNCHANGED <<qi, searchVars, poolVars>>
    /\ UNCHANGED <<input_file, queries, per_query_output, summary, output_fields,
                   configVars, interrupted, pageVars>>

\* The tail of cli_mode: the combined file and the summary line.
Finish ==
    /\ pc = "cli_finish"
    /\ IF all_scraped_data # <<>>
       THEN /\ files' = Append(files, File("scraped_results", all_scraped_data))
            /\ summary' = Summary("count", Len(all_scraped_data))
       ELSE IF ~per_query_output
       THEN summary' = Summary("nodata", 0) /\ UNCHANGED files
       ELSE UNCHANGED <<files, summary>>
    /\ pc' = "cli_done"
    /\ UNCHANGED <<input_file, queries, qi, per_query_output, all_scraped_data, history,
                   configVars, searchVars, poolVars, projVars, interrupted, pageVars>>

NextCli ==
    \/ CliStart
    \/ SearchAttempt
    \/ SearchWake
    \/ StartScrape
    \/ Submit
    \/ \E t \in 1..Len(task) : TaskStart(t)
    \/ \E t \in 1..Len(task) : TaskCheck(t)
    \/ \E t \in 1..Len(task) : TaskAttempt(t)
    \/ \E t \in 1..Len(task) : TaskWake(t)
    \/ AsCompleted
    \/ Collect
    \/ ExitPool
    \/ QueryDone
    \/ Finish

SpecCli == InitCli /\ [][NextCli]_vars

\* ------------------------------------------------- KeyboardInterrupt
\* shutdown(wait=True) has joined the workers: they leave only when the work
\* queue is drained, and none is inside a task.
PoolJoined == workQueue = <<>> /\ Executing = {}

\* KeyboardInterrupt is raised in the coordinator thread inside the `with
\* ThreadPoolExecutor` block (between two submits, or in the as_completed
\* loop): the block is left through executor.__exit__, which is
\* shutdown(wait=True).
Interrupt ==
    /\ pc \in {"submit", "as_completed", "collect"}
    /\ interrupted' = TRUE
    /\ pc' = "shutdown"
    /\ UNCHANGED <<configVars, searchVars, poolVars, projVars, cliVars, pageVars>>

\* The workers are joined; the exception leaves process_single_query and
\* cli_mode (whose `except Exception` does not catch it) and main calls
\* sys.exit(0).
Exit ==
    /\ pc = "shutdown"
    /\ PoolJoined
    /\ pc' = "exited"
    /\ UNCHANGED <<configVars, searchVars, poolVars, projVars, cliVars, pageVars, interrupted>>

\* A cli_mode run of up to two URLs per query that may be interrupted.
InitInterrupt == InitCliWith(2)

NextInterrupt ==
    \/ CliStart
    \/ SearchAttempt
    \/ SearchWake
    \/ StartScrape
    \/ Submit
    \/ \E t \in 1..Len(task) : TaskStart(t)
    \/ \E t \in 1..Len(task) : TaskCheck(t)
    \/ \E t \in 1..Len(task) : TaskAttempt(t)
    \/ \E t \in 1..Len(task) : TaskWake(t)
    \/ AsCompleted
    \/ Collect
    \/ ExitPool
    \/ QueryDone
    \/ Finish
    \/ Interrupt
    \/ Exit

SpecInterrupt == InitInterrupt /\ [][NextInterrupt]_vars

\* --------------------------------------- scrape_page: page contents
\* A parsed document is the sequence of its top-level nodes.  A node is a
\* string (tag "#text", with its text) or an element (with its children).
TextNode(text) == [tag |-> "#text", text |-> text, kids |-> <<>>]
Tag(name, kids) == [tag |-> name, text |-> <<>>, kids |-> kids]

\* soup.find / soup.body found nothing.
NoTag == [tag |-> "#none", text |-> <<>>, kids |-> <<>>]

\* The nodes of a forest in document order (each node before its children,
\* before its next sibling).
RECURSIVE Preorder(_)
Preorder(nodes) ==
    IF nodes = <<>> THEN <<>>
    ELSE <<Head(nodes)>> \o Preorder(Head(nodes).kids) \o Preorder(Tail(nodes))

\* tag.descendants
Descendants(node) == Preorder(node.kids)

\* soup.find(name) (soup.body for "body"): the first element of that name in
\* document order, or None.
Find(soup, name) ==
    LET found == SelectSeq(Preorder(soup), LAMBDA node : node.tag = name)
    IN IF found = <<>> THEN NoTag ELSE Head(found)

\* soup.find('main') or soup.find('article') or soup.body (a Tag is truthy
\* even when it is empty)
MainContentTags(soup) ==
    IF Find(soup, "main") # NoTag THEN Find(soup, "main")
    ELSE IF Find(soup, "article") # NoTag THEN Find(soup, "article")
    ELSE Find(soup, "body")

IrrelevantTags == {"header", "footer", "nav", "aside", "script", "style"}
content_tags == {"p", "h1", "h2", "h3", "h4", "h5", "h6", "li"}

\* for tag in main_content_tags.find_all([...]): tag.decompose(): what is
\* left of the children of the region.
RECURSIVE Decomposed(_)
Decomposed(nodes) ==
    IF nodes = <<>> THEN <<>>
    ELSE IF Head(nodes).tag \in IrrelevantTags THEN Decomposed(Tail(nodes))
    ELSE <<[Head(nodes) EXCEPT !.kids = Decomposed(@)]>> \o Decomposed(Tail(nodes))

\* tag.get_text(strip=True): every string below the tag is stripped, the
\* empty ones are left out, and the rest are joined with the empty separator.
GetTextStrip(node) ==
    LET strings == SelectSeq(Descendants(node), LAMBDA d : d.tag = "#text")
        stripped == [i \in 1..Len(strings) |-> Strip(strings[i].text)]
    IN Join(SelectSeq(stripped, LAMBDA str : str # <<>>), <<>>)

NoContentFound == <<"No", " ", "content", " ", "found", " ", "in", " ", "main", " ", "tags.">>

\* page_contents of scrape_page, and the "full_content" it returns.
PageContents(soup) ==
    LET main_content_tags == MainContentTags(soup) IN
    IF main_content_tags # NoTag
    THEN LET found == SelectSeq(Preorder(Decomposed(main_content_tags.kids)),
                                LAMBDA node : node.tag \in content_tags)
         IN Join([i \in 1..Len(found) |-> GetTextStrip(found[i])], <<" ">>)
    ELSE NoContentFound

FullContent(soup) == clean_text(PageContents(soup))

\* The content pages the extraction is examined on.  Strings with double and
\* with trailing whitespace; inline content: a string or <b>big</b>.
Strings == {<<"Hello", " ", " ", "world">>, <<"Hello", " ">>, <<"nav">>}
Inline == {TextNode(str) : str \in Strings} \cup {Tag("b", <<TextNode(<<"big">>)>>)}

\* <p>, <li>, <div>, <header> with up to MaxKids pieces of inline content,
\* and a <p> wrapped in a <header>, <nav>, <li> or <div>.
Blocks ==
    {Tag(name, kids) : name \in {"p", "li", "div", "header"}, kids \in SeqUpTo(Inline, MaxKids)}
Paragraphs == {Tag("p", <<piece>>) : piece \in Inline}
Wrapped == {Tag(name, <<para>>) : name \in {"header", "nav", "li", "div"}, para \in Paragraphs}

\* A document with one region (<main>, <article> or <body>) of up to MaxKids
\* blocks; a <body> holding an <article>, then a <main>, then a paragraph;
\* a document with no region at all.
Documents ==
    {<<Tag(region, kids)>> :
        region \in {"main", "article", "body"}, kids \in SeqUpTo(Blocks \cup Wrapped, MaxKids)}
    \cup {<<Tag("body", <<Tag("article", <<a>>), Tag("main", <<m>>), b>>)>> :
             a \in Paragraphs, m \in Paragraphs, b \in Paragraphs}
    \cup {<<Tag("body", <<Tag("article", <<a>>), b>>)>> : a \in Paragraphs, b \in Paragraphs}
    \cup {<<Tag("div", <<para>>)>> : para \in Paragraphs}

\* scrape_page has parsed a 200 response into `document`.
InitPage ==
    /\ InitWith(1, 1, 1)
    /\ search_only = FALSE
    /\ search_engine = DefaultEngine
    /\ search_page = <<>>
    /\ output_fields = <<>>
    /\ NoCli
    /\ pc = "parsed"
    /\ document \in Documents
    /\ full_content = <<>>

\* Lines 180-190 and the "full_content" entry of the dict returned.
ExtractPage ==
    /\ pc = "parsed"
    /\ full_content' = FullContent(document)
    /\ pc' = "extracted"
    /\ UNCHANGED <<document, configVars, searchVars, poolVars, projVars, interrupted, cliVars>>

NextPage == ExtractPage

SpecPage == InitPage /\ [][NextPage]_vars

\* ================================================================
\* The retry protocol (checked under SpecFetch)
\* ================================================================
SearchEnded == pc \notin {"search", "searchSleep"}

RECURSIVE CountEv(_, _)
CountEv(log, ev) ==
    IF log = <<>> THEN 0
    ELSE (IF Head(log).ev = ev THEN 1 ELSE 0) + CountEv(Tail(log), ev)

\* The number of GET requests a fetch issued.
Gets(log) == CountEv(log, "GET")

\* Every request of the fetch ended in a transient failure.
AllTransient(log) ==
    /\ Gets(log) > 0
    /\ \A i \in 1..Len(log) : log[i].ev = "resp" => log[i].c = "transient"

\* The position of the GET of attempt k.
GetPos(log, k) == CHOOSE i \in 1..Len(log) : log[i].ev = "GET" /\ log[i].n = k

\* The seconds slept between positions i and j of the log.
RECURSIVE Slept(_, _, _)
Slept(log, i, j) ==
    IF i > j THEN 0
    ELSE (IF log[i].ev = "sleep" THEN log[i].n ELSE 0) + Slept(log, i + 1, j)

\* N attempts, numbered 0..N-1, and BaseDelay * 2^k seconds of sleep between
\* attempt k and attempt k + 1.
ExactlyNAttempts(log, N) ==
    /\ Gets(log) = N
    /\ \A k \in 0..(N - 1) : \E i \in 1..Len(log) : log[i].ev = "GET" /\ log[i].n = k
    /\ \A k \in 0..(N - 2) :
         Slept(log, GetPos(log, k), GetPos(log, k + 1)) = BaseDelay * Pow2(k)

\* C1: a fetch (the search fetch, or the page fetch of a task) all of whose
\* attempts ended in a transient failure has issued exactly `retries` GETs,
\* has slept BaseDelay * 2^k between attempt k and attempt k + 1, and has
\* ended in the retries-exhausted failure: fetch_search_results returned [],
\* scrape_page returned None.
C1_TransientOnlyExhausts ==
    /\ (SearchEnded /\ AllTransient(sLog)) =>
          /\ ExactlyNAttempts(sLog, retries)
          /\ sOutcome = "exhausted"
          /\ results = <<>>
    /\ \A t \in 1..Len(task) :
          (task[t].st = "done" /\ AllTransient(task[t].log)) =>
             /\ ExactlyNAttempts(task[t].log, retries)
             /\ task[t].result = None

\* A page fetch of three attempts, all transient, has ended.
C1_Witness ==
    \E t \in 1..Len(task) :
       /\ retries >= 3
       /\ task[t].st = "done"
       /\ AllTransient(task[t].log)
       /\ Gets(task[t].log) = retries

\* C2 (as claimed): in every fetch, of the search page or of a content page,
\* a terminal failure is the last thing that happens: no GET and no sleep
\* follows it.
TerminalIsFinal(log) ==
    \A i \in 1..Len(log) :
       (log[i].ev = "resp" /\ log[i].c = "terminal") => i = Len(log)

C2_TerminalFailsImmediately ==
    /\ TerminalIsFinal(sLog)
    /\ \A t \in 1..Len(task) : TerminalIsFinal(task[t].log)

\* The response of attempt k is a 200 and every earlier attempt of the fetch
\* ended in a transient failure; i is the position of that response.
OkAfterTransients(log, i) ==
    /\ log[i].ev = "resp"
    /\ log[i].c = "ok"
    /\ \A j \in 1..(i - 1) : log[j].ev = "resp" => log[j].c = "transient"

NothingIssuedAfter(log, i) ==
    \A j \in (i + 1)..Len(log) : log[j].ev \notin {"GET", "sleep"}

C4_AtMostMaxWorkers ==
    /\ [](Cardinality(Executing) <= max_workers)
    /\ [][\A t \in 1..Len(task) :
            (task[t].st = "queued" /\ task'[t].st # "queued")
               => Cardinality(Executing) < max_workers]_vars

\* Every worker the limit allows is busy while another task waits in the queue.
C4_Witness ==
    /\ Cardinality(Executing) = max_workers
    /\ workQueue # <<>>

\* The host of the URL is an entry of the skip list.
HostOnSkipList(url) ==
    \E d \in 1..Len(DOMAINS_TO_SKIP) : Host(url) = DOMAINS_TO_SKIP[d]

\* C5: for a URL whose host is on the skip list, the task never issues a GET
\* and no page of that URL is in the list the scheduler builds.
C5_SkippedHostNeverFetched ==
    \A t \in 1..Len(task) :
       HostOnSkipList(urls_to_scrape[t]) =>
          /\ Gets(task[t].log) = 0
          /\ task[t].result = None
          /\ \A i \in 1..Len(scraped_data) : scraped_data[i].url # urls_to_scrape[t]

\* A batch holding a skip-listed URL has returned with the page of another URL.
C5_Witness ==
    /\ pc = "returned"
    /\ scraped_data # <<>>
    /\ \E t \in 1..Len(task) :
          HostOnSkipList(urls_to_scrape[t]) /\ task[t].st = "done"

\* C6: when process_single_query returns, every task it submitted is
\* finished: none is queued or executing.
C6_ReturnsAfterAllTasks ==
    pc = "returned" =>
       /\ workQueue = <<>>
       /\ \A t \in 1..Len(task) : task[t].st = "done"

\* The scheduler has returned from a batch of several tasks that ran side by
\* side.
C6_Witness ==
    /\ pc = "returned"
    /\ Len(task) >= 2
    /\ numThreads >= 2

\* The document of a 200 response was extracted: the task succeeded, with
\* the page of that attempt.
Succeeded(t) == \E i \in 1..Len(task[t].log) :
                   task[t].log[i].ev = "doc" /\ task[t].log[i].c = "html"

PageOf(t) ==
    LET i == CHOOSE i \in 1..Len(task[t].log) :
                task[t].log[i].ev = "doc" /\ task[t].log[i].c = "html"
    IN ScrapedPage(urls_to_scrape[t], task[t].log[i].n)

\* C7: the returned list holds one entry per task that succeeded (as many
\* entries equal to a page as there are succeeded tasks with that page) and
\* none for a task that failed; every task, failing ones or not, has run to
\* its end and been collected; and a finished task is never run again.
C7_OneEntryPerSucceededTask ==
    /\ [](pc = "returned" /\ Len(task) > 0 =>
            /\ \A t \in 1..Len(task) : task[t].st = "done"
            /\ yielded = Len(task)
            /\ Len(scraped_data) = Cardinality({t \in 1..Len(task) : Succeeded(t)})
            /\ \A t \in 1..Len(task) :
                  Succeeded(t) =>
                     Cardinality({i \in 1..Len(scraped_data) : scraped_data[i] = PageOf(t)})
                        = Cardinality({u \in 1..Len(task) :
                                          Succeeded(u) /\ PageOf(u) = PageOf(t)}))
    /\ [][\A t \in 1..Len(task) :
            task[t].st = "done" => (t \in 1..Len(task') /\ task'[t] = task[t])]_vars

\* A returned batch in which one fetch was exhausted and another succeeded.
C7_Witness ==
    /\ pc = "returned"
    /\ \E t, u \in 1..Len(task) :
          /\ Succeeded(t)
          /\ ~Succeeded(u)
          /\ Gets(task[u].log) = retries

\* C15 (as claimed): a URL whose host is on the skip list is excluded before
\* dispatch: its task is never submitted to the pool (it is never queued and
\* never occupies a worker), and once the progress bar exists its total
\* counts only the URLs whose host is not on the skip list.
C15_SkippedNeverDispatched ==
    /\ \A t \in 1..Len(task) :
          HostOnSkipList(urls_to_scrape[t]) => task[t].st = "new"
    /\ watching =>
          ProgressTotal = Cardinality({t \in 1..Len(task) :
                                          ~HostOnSkipList(urls_to_scrape[t])})

\* The tasks that succeeded, in the order in which they completed.
SucceededInCompletionOrder == SelectSeq(completed, Succeeded)

\* C16 (as claimed): the list the scheduler returns holds the pages of the
\* succeeded tasks in the order in which those tasks completed, whatever the
\* interleaving and the order of the input URLs.
C16_ResultsInCompletionOrder ==
    pc = "returned" =>
       scraped_data = [i \in 1..Len(SucceededInCompletionOrder) |->
                          PageOf(SucceededInCompletionOrder[i])]

\* ================================================================
\* The batch aggregator (checked under SpecProject)
\* ================================================================
KeysOf(d) == {d[i][1] : i \in 1..Len(d)}

ValueAt(d, key) == d[CHOOSE i \in 1..Len(d) : d[i][1] = key][2]

RequestedFields == {output_fields[i] : i \in 1..Len(output_fields)}

\* The record's url field is present and non-empty.
HasUrl(R) == \E i \in 1..Len(R) : R[i][1] = "url" /\ R[i][2] # ""

\* The input records that have a usable url, in input order.
RetainedInputs == SelectSeq(scraped_results, HasUrl)

\* C8: every output record has exactly the requested fields as its keys, each
\* once; a requested field the source record has carries the record's value,
\* one it lacks carries "Field not found"; keys of the record that were not
\* requested are gone.
C8_ProjectionLaw ==
    pc = "projected" =>
       /\ Len(processed_data) = Len(RetainedInputs)
       /\ \A j \in 1..Len(processed_data) :
             LET out == processed_data[j]
                 R == RetainedInputs[j]
             IN /\ KeysOf(out) = RequestedFields
                /\ Len(out) = Cardinality(RequestedFields)
                /\ \A f \in RequestedFields :
                      ValueAt(out, f) = IF f \in KeysOf(R) THEN ValueAt(R, f)
                                        ELSE FieldNotFound

\* A record that lacks a requested field and has a key that was not requested
\* has been projected.
C8_Witness ==
    /\ pc = "projected"
    /\ \E j \in 1..Len(processed_data) :
          /\ RequestedFields \ KeysOf(RetainedInputs[j]) # {}
          /\ KeysOf(RetainedInputs[j]) \ RequestedFields # {}
          /\ RequestedFields \cap KeysOf(RetainedInputs[j]) # {}

\* The field list without its repetitions: each name at its first place.
RECURSIVE FirstOccurrences(_)
FirstOccurrences(fields) ==
    IF fields = <<>> THEN <<>>
    ELSE LET n == Len(fields)
             before == FirstOccurrences(SubSeq(fields, 1, n - 1))
         IN IF \E i \in 1..Len(before) : before[i] = fields[n]
            THEN before
            ELSE Append(before, fields[n])

RetainedPositions == {i \in 1..Len(scraped_results) : HasUrl(scraped_results[i])}

\* C10: the output records correspond one to one, in input order, to the
\* input records that have a non-empty url: there is an increasing map from
\* output positions onto exactly those input positions, and each output
\* record carries its input record's values of the requested fields; this
\* does not depend on url being requested.
C10_RetainedInInputOrder ==
    pc = "projected" =>
       \E m \in [1..Len(processed_data) -> 1..Len(scraped_results)] :
          /\ \A j, k \in 1..Len(processed_data) : j < k => m[j] < m[k]
          /\ {m[j] : j \in 1..Len(processed_data)} = RetainedPositions
          /\ \A j \in 1..Len(processed_data) :
                \A f \in RequestedFields \cap KeysOf(scraped_results[m[j]]) :
                   ValueAt(processed_data[j], f) = ValueAt(scraped_results[m[j]], f)

\* Of two records the first, with an empty or missing url, was dropped and the
\* second kept, url not being among the requested fields.
C10_Witness ==
    /\ pc = "projected"
    /\ Len(scraped_results) = 2
    /\ ~HasUrl(scraped_results[1])
    /\ HasUrl(scraped_results[2])
    /\ "url" \notin RequestedFields
    /\ RequestedFields # {}
    /\ Len(processed_data) = 1

\* ================================================================
\* The result-list extractor (checked under SpecExtract)
\* ================================================================
\* The containers the resolved profile's container selector matches.
MatchedContainers ==
    Select(search_page, EngineConfig(search_engine).selectors.result_link_container)

\* The container has a link with a non-empty href and a title element whose
\* text is non-empty after normalization.
HasLinkAndTitle(c) ==
    /\ c.link.exists /\ c.link.has_href /\ c.link.href # <<>>
    /\ c.title.exists /\ clean_text(c.title.text) # <<>>

\* The SearchResult of such a container.
ResultOf(c) ==
    SearchResult(c.link.href,
                 clean_text(c.title.text),
                 clean_text(IF c.snippet.exists THEN c.snippet.text ELSE NoSnippetFound))

\* C11 (as claimed): after a successful search fetch the result list holds,
\* in document order, the SearchResults of exactly the matched containers that
\* have both a link with a non-empty href and a non-empty title text; a
\* container without a title element, or with a title that is empty after
\* normalization, contributes nothing.
C11_ContributesIffLinkAndTitle ==
    (SearchEnded /\ sOutcome = "ok") =>
       LET kept == SelectSeq(MatchedContainers, HasLinkAndTitle)
       IN results = [i \in 1..Len(kept) |-> ResultOf(kept[i])]

\* The profile the Extraction Rule Set gives for an engine id.
ProfileOf(id) ==
    IF id = "google" THEN SEARCH_ENGINES.google
    ELSE IF id = "bing" THEN SEARCH_ENGINES.bing
    ELSE IF id = "duckduckgo" THEN SEARCH_ENGINES.duckduckgo
    ELSE SEARCH_ENGINES.google

\* C18: whatever engine id the search is requested with, every GET of the
\* search fetch goes to the query URL of that id's profile, the google one
\* for an id that is not google, bing or duckduckgo; the fetch is attempted
\* (an unknown id does not make it fail before a request), and on a 200 the
\* results are those of the containers that profile's selector matches.
C18_UnknownEngineUsesGoogle ==
    /\ \A i \in 1..Len(sLog) :
          sLog[i].ev = "GET" => sLog[i].c = ProfileOf(search_engine).url
    /\ SearchEnded => Gets(sLog) >= 1
    /\ (SearchEnded /\ sOutcome = "ok") =>
          results = ExtractContainers(
                       Select(search_page,
                              ProfileOf(search_engine).selectors.result_link_container))

\* A search with an unknown engine id has returned a result extracted from a
\* google container, on a page that also holds a container of another engine.
C18_Witness ==
    /\ search_engine \notin {"google", "bing", "duckduckgo"}
    /\ SearchEnded
    /\ sOutcome = "ok"
    /\ Len(results) = 1
    /\ Len(search_page) = 2
    /\ \E i \in 1..Len(sLog) :
          sLog[i].ev = "GET" /\ sLog[i].c = "https://www.google.com/search?q="

\* ================================================================
\* The batch run (checked under SpecCli)
\* ================================================================
\* The search page of the i-th processed query was fetched with a 200 and no
\* container matched the profile's selector.
EmptyExtraction(i) == history[i].search = "ok" /\ history[i].containers = 0

\* The search fetch of the i-th processed query failed: a terminal error, or
\* the retries were exhausted.
SearchFailed(i) == history[i].search \in {"terminal", "exhausted"}

\* C12 (as claimed): a query whose search page had no matching container
\* got a zero-length candidate list and completed with nothing scraped, and
\* the value fetch_search_results returned for it differs from the value it
\* returned for any query whose search fetch failed.
C12_EmptyDistinctFromFailure ==
    /\ \A i \in 1..Len(history) :
          EmptyExtraction(i) => (history[i].returned = <<>> /\ history[i].pages = <<>>)
    /\ \A i, j \in 1..Len(history) :
          (EmptyExtraction(i) /\ SearchFailed(j))
             => history[i].returned # history[j].returned

\* The number of pages scraped successfully for the first k processed queries.
RECURSIVE PagesScraped(_)
PagesScraped(k) == IF k = 0 THEN 0 ELSE PagesScraped(k - 1) + Len(history[k].pages)

\* C14 (as claimed): when cli_mode has ended a run over one query or a list
\* of queries, it has reported the number of pages scraped successfully:
\* the summary line with that count, or, when the count is zero, the line
\* saying that no data was scraped; this holds with per-query output too.
C14_BatchReportsCount ==
    (pc = "cli_done" /\ queries # <<>>) =>
       \/ summary = Summary("count", PagesScraped(Len(history)))
       \/ summary = Summary("nodata", 0) /\ PagesScraped(Len(history)) = 0

\* The processed records of the first k processed queries, in order.
RECURSIVE RecordsUpTo(_)
RecordsUpTo(k) ==
    IF k = 0 THEN <<>>
    ELSE RecordsUpTo(k - 1) \o
         process_scraped_data(
            [i \in 1..Len(history[k].pages) |-> PageDict(history[k].pages[i])],
            output_fields)

\* The per-query files of the first k processed queries: one for each query
\* that has records.
RECURSIVE FilesUpTo(_)
FilesUpTo(k) ==
    IF k = 0 THEN <<>>
    ELSE LET records == process_scraped_data(
                           [i \in 1..Len(history[k].pages) |-> PageDict(history[k].pages[i])],
                           output_fields)
         IN IF records = <<>> THEN FilesUpTo(k - 1)
            ELSE Append(FilesUpTo(k - 1), File(history[k].query, records))

\* C19: the k-th query processed is the k-th query of the input list, the
\* query in process is the one after those processed, and when the loop is
\* over every query has been processed, however the earlier ones ended
\* (search failed, nothing extracted, every URL failed); the combined list
\* holds the records of all processed queries in order (with per-query
\* output: one file per query that has records).
C19_EveryQueryOnceInOrder ==
    /\ Len(history) <= Len(queries)
    /\ \A k \in 1..Len(history) : history[k].query = queries[k]
    /\ pc \notin {"cli", "cli_finish", "cli_done"} => qi = Len(history) + 1
    /\ pc \in {"cli_finish", "cli_done"} => Len(history) = Len(queries)
    /\ IF input_file /\ per_query_output
       THEN all_scraped_data = <<>> /\ files = FilesUpTo(Len(history))
       ELSE all_scraped_data = RecordsUpTo(Len(history))

\* A batch of two queries has ended: the search of the first failed, the
\* second had a page scraped and its record is in the combined list.
C19_Witness ==
    /\ pc = "cli_done"
    /\ input_file
    /\ ~per_query_output
    /\ Len(history) = 2
    /\ SearchFailed(1)
    /\ history[2].pages # <<>>
    /\ Len(all_scraped_data) = 1

\* ================================================================
\* Cancellation (checked under SpecInterrupt)
\* ================================================================
\* The scrape_page call of the task has not begun.
NotStarted(st) == st \in {"new", "queued"}

\* The records process_scraped_data makes of the pages of the k-th processed
\* query, every one the result of a task that ran to its end.
RecordsOfQuery(k) ==
    process_scraped_data([i \in 1..Len(history[k].pages) |-> PageDict(history[k].pages[i])],
                         output_fields)

\* C13 (as claimed): once KeyboardInterrupt has reached the coordinator, no
\* task that had not started begins (so none starts a fetch), the coordinator
\* is never found waiting in the shutdown of the pool while tasks are still
\* queued, and every output file written holds the records of one processed
\* query, none of an unfinished task.
C13_InterruptStopsNewWork ==
    /\ [][interrupted =>
            \A t \in 1..Len(task) :
               NotStarted(task[t].st) => (t \in 1..Len(task') /\ NotStarted(task'[t].st))]_vars
    /\ [](pc = "shutdown" => workQueue = <<>>)
    /\ [](interrupted =>
            \A f \in 1..Len(files) :
               \E k \in 1..Len(history) :
                  files[f].name = history[k].query /\ files[f].data = RecordsOfQuery(k))

\* ================================================================
\* The page-content extractor (checked under SpecPage)
\* ================================================================
\* The first element of that name in the document, if there is one.
HasElement(name) == \E i \in 1..Len(Preorder(document)) : Preorder(document)[i].tag = name

FirstElement(name) ==
    LET all == Preorder(document)
    IN all[CHOOSE i \in 1..Len(all) :
              all[i].tag = name /\ \A j \in 1..(i - 1) : all[j].tag # name]

\* The text of the strings below the nodes, in document order, leaving out
\* every header, footer, nav, aside, script and style subtree.
RECURSIVE TextOutsidePruned(_)
TextOutsidePruned(nodes) ==
    IF nodes = <<>> THEN <<>>
    ELSE LET node == Head(nodes)
         IN (IF node.tag \in IrrelevantTags THEN <<>>
             ELSE IF node.tag = "#text" THEN node.text
             ELSE TextOutsidePruned(node.kids))
            \o TextOutsidePruned(Tail(nodes))

\* The texts of the p, h1-h6 and li elements among the nodes and below them
\* that do not lie inside a pruned subtree, in document order.
RECURSIVE ContentTexts(_)
ContentTexts(nodes) ==
    IF nodes = <<>> THEN <<>>
    ELSE LET node == Head(nodes)
         IN (IF node.tag \in IrrelevantTags THEN <<>>
             ELSE (IF node.tag \in content_tags
                   THEN <<TextOutsidePruned(node.kids)>> ELSE <<>>)
                  \o ContentTexts(node.kids))
            \o ContentTexts(Tail(nodes))

\* Whitespace-normalized: runs of whitespace collapsed to one space, trimmed.
RECURSIVE Normalized(_)
Normalized(text) ==
    IF text = <<>> THEN <<>>
    ELSE LET rest == Normalized(Tail(text))
         IN IF IsSpace(Head(text))
            THEN (IF rest = <<>> \/ Head(rest) = " " THEN rest ELSE <<" ">> \o rest)
            ELSE <<Head(text)>> \o rest

Trimmed(text) == IF text # <<>> /\ Head(text) = " " THEN Tail(text) ELSE text

\* C17 (as claimed): full_content is computed from the first <main>, else
\* the first <article>, else the body, and is the whitespace-normalized,
\* single-space-joined text of the p, h1-h6 and li elements of that region
\* that lie in no pruned subtree, without the text of pruned subtrees; with
\* no region it is the sentinel.
C17_FullContentOfRegion ==
    pc = "extracted" =>
       LET region == IF HasElement("main") THEN FirstElement("main")
                     ELSE IF HasElement("article") THEN FirstElement("article")
                     ELSE IF HasElement("body") THEN FirstElement("body")
                     ELSE NoTag
       IN full_content =
             IF region = NoTag THEN NoContentFound
             ELSE Trimmed(Normalized(Join(ContentTexts(region.kids), <<" ">>)))

\* ================================================================
\* The trailing backoff sleep (checked under SpecFetch)
\* ================================================================
\* Every failed attempt that the loop retries is followed at once by a sleep
\* of 2^k seconds, k its index; `retried` says which response classes are.
SleepsAfterRetried(log, retried) ==
    \A i \in 1..Len(log) :
       (log[i].ev = "resp" /\ log[i].c \in retried) =>
          /\ i < Len(log)
          /\ log[i + 1] = Event("sleep", "", 2 ^ log[i].n)

\* The fetch made all its attempts and the last one failed too: it ended
\* after `retries` sleeps of 2^retries - 1 seconds in all, the last of them
\* after the last attempt.
ExhaustedAfterAllSleeps(log) ==
    /\ Gets(log) = retries
    /\ CountEv(log, "sleep") = retries
    /\ Slept(log, 1, Len(log)) = 2 ^ retries - 1
    /\ log[Len(log)] = Event("sleep", "", 2 ^ (retries - 1))

\* The page fetch of the task ended without a 200: every attempt failed.
TaskExhausted(t) ==
    /\ task[t].st = "done"
    /\ Gets(task[t].log) > 0
    /\ \A i \in 1..Len(task[t].log) : task[t].log[i].ev = "resp" => task[t].log[i].c # "ok"

\* C20: in fetch_search_results every transient failure, and in scrape_page
\* every failed request, is followed by a sleep of 2^k seconds, the last
\* attempt k = retries - 1 included; a fetch that ends with its retries
\* exhausted has slept `retries` times, 2^retries - 1 seconds in all, and
\* its last sleep comes after its last attempt.
C20_SleepsAfterLastAttempt ==
    /\ SleepsAfterRetried(sLog, {"transient"})
    /\ sOutcome = "exhausted" => ExhaustedAfterAllSleeps(sLog)
    /\ \A t \in 1..Len(task) :
          /\ SleepsAfterRetried(task[t].log, {"transient", "terminal"})
          /\ TaskExhausted(t) => (task[t].result = None /\ ExhaustedAfterAllSleeps(task[t].log))

\* A page fetch of three attempts has ended exhausted, its last event a sleep
\* of four seconds.
C20_Witness ==
    \E t \in 1..Len(task) :
       /\ retries = 3
       /\ TaskExhausted(t)
       /\ task[t].log[Len(task[t].log)] = Event("sleep", "", 4)
       /\ Slept(task[t].log, 1, Len(task[t].log)) = 7

\* ================================================================
\* The skip test is a substring test (checked under SpecSkip)
\* ================================================================
\* The entry is a piece of the URL string: the URL is some prefix, the entry,
\* some suffix.
OccursIn(entry, url) ==
    \E i \in 0..Len(url), j \in 0..Len(url) :
       /\ i <= j
       /\ url = SubSeq(url, 1, i) \o entry \o SubSeq(url, j + 1, Len(url))
       /\ j - i = Len(entry)

HoldsSkipEntry(url) ==
    \E d \in 1..Len(DOMAINS_TO_SKIP) : OccursIn(DOMAINS_TO_SKIP[d], url)

\* The scrape_page call of the task is past its skip loop.
PastSkipLoop(t) == task[t].st \in {"get", "sleep", "done"}

\* C21: a scrape_page call whose URL holds a skip-list entry anywhere (host,
\* path, query or fragment) returns None from the skip loop without a
\* request; a call whose URL holds none enters the fetch loop and ends only
\* after at least one GET.
C21_SkippedIffEntryOccurs ==
    \A t \in 1..Len(task) :
       /\ (PastSkipLoop(t) /\ HoldsSkipEntry(urls_to_scrape[t])) =>
             /\ task[t].st = "done"
             /\ task[t].result = None
             /\ task[t].log = <<>>
       /\ (task[t].st = "done" /\ ~HoldsSkipEntry(urls_to_scrape[t])) =>
             Gets(task[t].log) >= 1

\* A URL whose host is not on the skip list and holds no entry, with an entry
\* in its fragment, was skipped without a request.
C21_Witness ==
    \E t \in 1..Len(task) :
       /\ ~OccursIn(<<"twitter", ".com">>, Host(urls_to_scrape[t]))
       /\ \E i \in 1..(Len(urls_to_scrape[t]) - 2) :
             SubSeq(urls_to_scrape[t], i, i + 2) = <<"#", "twitter", ".com">>
       /\ task[t].st = "done"
       /\ task[t].result = None
       /\ task[t].log = <<>>

\* ================================================================
\* How many tasks a query dispatches (checked under Spec)
\* ================================================================
\* The URLs of the tasks are those of distinct positions of the result list.
FromDistinctPositions ==
    \E pos \in [1..Len(urls_to_scrape) -> 1..Len(results)] :
       /\ \A i, j \in 1..Len(urls_to_scrape) : i # j => pos[i] # pos[j]
       /\ \A i \in 1..Len(urls_to_scrape) : urls_to_scrape[i] = results[pos[i]].url

\* The tasks handed to the executor so far: the first `submitted` ones, each
\* once.
Dispatched == {t \in 1..Len(task) : task[t].st # "new"}

\* C22: in scrape mode, once the search has returned, the query has one task
\* for each of min(num_urls, number of results) distinct positions of the
\* result list; each is submitted once, and all of them are by the time the
\* collection starts; with no result there is no task and the query returns
\* the empty list.
C22_DispatchesMinOfDistinct ==
    (~search_only /\ pc \in {"submit", "as_completed", "collect", "returned"}) =>
       /\ Len(task) = (IF num_urls <= Len(results) THEN num_urls ELSE Len(results))
       /\ Len(urls_to_scrape) = Len(task)
       /\ FromDistinctPositions
       /\ Dispatched = 1..submitted
       /\ \A i, j \in 1..Len(workQueue) : i # j => workQueue[i] # workQueue[j]
       /\ pc # "submit" => submitted = Len(task)
       /\ results = <<>> =>
             /\ pc = "returned"
             /\ submitted = 0
             /\ scraped_data = <<>>

\* A query with two results linking to different URLs and num_urls = 1 has
\* returned after dispatching one task.
C22_Witness ==
    /\ ~search_only
    /\ pc = "returned"
    /\ num_urls = 1
    /\ Len(results) = 2
    /\ results[1].url # results[2].url
    /\ submitted = 1
    /\ task[1].st = "done"

=============================================================================
